---- MODULE Spec2Model ----
(***************************************************************************)
(* Model of the scene engine of kafka_flow_visualiser: the EventBus, the   *)
(* Animator (a wrapper around one GSAP timeline) and the Scene lifecycle.  *)
(* Source: src/js/lessons/Lesson5_Offsets.js (Scene 605-842, EventBus      *)
(* 849-933, Animator 940-1118).                                            *)
(***************************************************************************)
EXTENDS Integers, Sequences, FiniteSets, TLC

VARIABLES
    listeners,   \* EventBus.listeners: Map event -> array of callbacks
    net,         \* history: per (event, callback) on calls minus matched off calls
    last,        \* history: what the most recent API call did
    chain,       \* history: the latest once() call and the emits that followed it
    animator,    \* Animator: timeline (0 = null), speed, isPlaying
    timelines,   \* GSAP: the timelines created and not killed, by identity
    lastAnim,    \* history: the most recent Animator call
    sceneClass,  \* which setup() the scene's class has
    scene,       \* Scene: isInitialized
    elements,    \* Scene.elements: Map id -> element
    vizGroup,    \* the children of the canvas's #visualization group
    pending,     \* init() calls suspended at "await this.setup()", oldest first
    hist,        \* history: init and setup calls since construction or destroy
    lastScene,   \* history: the most recent Scene call
    currentScene, \* KafkaFlowVisualizer.currentScene (0 = null, else an instance)
    controls,    \* Controls: whether its buttons and slider are disabled, isPlaying
    instances,   \* the scenes the shell constructed, by identity
    loads,       \* loadLesson() calls suspended at "await init()", oldest first
    lastShell,   \* history: the most recent step of the shell
    lesson,      \* a lesson scene's own fields (counters, routing, assignments)
    tokens,      \* GSAP: the per-token timelines alive, oldest first
    rebalances,  \* rebalance() calls suspended at their 1000 ms timer, oldest first
    lessonHist,  \* history: tokens created, partitions assigned, destroy seen
    lastLesson,  \* history: the most recent lesson callback or destroy
    mainTimeline \* a lesson's main timeline: the offsets of its spawn callbacks
                 \* in the order added, and the callbacks fired in this pass

varsBus == <<listeners, net, last, chain>>
varsAnim == <<animator, timelines, lastAnim>>
varsScene == <<sceneClass, scene, elements, vizGroup, pending, hist, lastScene>>

varsShell == <<currentScene, controls, instances, loads, lastShell>>
varsLesson == <<lesson, tokens, rebalances, lessonHist, lastLesson, mainTimeline>>

vars == <<listeners, net, last, chain, animator, timelines, lastAnim,
          sceneClass, scene, elements, vizGroup, pending, hist, lastScene,
          currentScene, controls, instances, loads, lastShell,
          lesson, tokens, rebalances, lessonHist, lastLesson, mainTimeline>>

(***************************************************************************)
(* Bounds                                                                  *)
(***************************************************************************)
MaxListeners == 3   \* registrations held by the bus at one time
MaxOnce == 1        \* once-wrappers alive at one time
MaxTimelines == 2   \* GSAP timelines alive at one time
MaxTime == 2        \* a timeline's playhead runs over 0..MaxTime and repeats
MaxInits == 2       \* init() calls between two destroy() calls, and suspended at once
MaxScenes == 3      \* scenes the shell constructs
MaxTokens == 13     \* tokens a lesson scene creates
MaxInflight == 1    \* tokens in flight at one time
MaxElements == 3    \* elements attached to the render root at one time
MaxRebalances == 2  \* rebalance() calls waiting on their timer at one time

(***************************************************************************)
(* EventBus                                                                *)
(***************************************************************************)
Events == {"E"}

\* The callbacks a client registers.  Each is a function whose body is a
\* short sequence of calls back into the bus, or a throw.
Callbacks == {"plain", "thrower", "offSelf", "offPlain", "resub"}

Body(c) ==
    CASE c = "plain"    -> << >>
      [] c = "thrower"  -> << [op |-> "throw", target |-> c] >>
      [] c = "offSelf"  -> << [op |-> "off", target |-> c] >>
      [] c = "offPlain" -> << [op |-> "off", target |-> "plain"] >>
      [] c = "resub"    -> << [op |-> "off", target |-> c], [op |-> "on", target |-> c] >>

\* A registered function: a client callback itself (wid = 0) or the wrapper
\* that once() built around it (wid > 0: the wrapper's identity).
Entry == [cb : Callbacks, wid : 0..MaxOnce]
Plain(c) == [cb |-> c, wid |-> 0]
Wrapped(c, w) == [cb |-> c, wid |-> w]

\* Map.set / Map.delete on a function whose domain is the set of keys.
MapSet(m, k, v) == [x \in DOMAIN m \cup {k} |-> IF x = k THEN v ELSE m[x]]
MapDelete(m, k) == [x \in DOMAIN m \ {k} |-> m[x]]

\* Array.prototype.indexOf, 1-based; 0 stands for JavaScript's -1.
IndexOf(s, e) ==
    IF \E i \in 1..Len(s) : s[i] = e
    THEN CHOOSE i \in 1..Len(s) : s[i] = e /\ \A j \in 1..(i - 1) : s[j] # e
    ELSE 0

\* Array.prototype.splice(index, 1) at a 1-based index.
Splice(s, i) == SubSeq(s, 1, i - 1) \o SubSeq(s, i + 1, Len(s))

\* on(event, callback)
On(l, ev, e) ==
    LET l1 == IF ev \notin DOMAIN l THEN MapSet(l, ev, << >>) ELSE l
    IN  MapSet(l1, ev, Append(l1[ev], e))

\* off(event, callback) with the index test left out: splice(-1, 1) drops
\* the last element.
OffNoIndexTest(l, ev, e) ==
    IF ev \notin DOMAIN l THEN l
    ELSE LET callbacks == l[ev]
             index == IndexOf(callbacks, e)
             after == IF index > 0 THEN Splice(callbacks, index)
                      ELSE SubSeq(callbacks, 1, Len(callbacks) - 1)
         IN  IF Len(after) = 0 THEN MapDelete(l, ev) ELSE MapSet(l, ev, after)

\* off(event, callback)
Off(l, ev, e) ==
    IF ev \notin DOMAIN l THEN l
    ELSE LET callbacks == l[ev]
             index == IndexOf(callbacks, e)
             after == IF index > 0 THEN Splice(callbacks, index) ELSE callbacks
         IN  IF Len(after) = 0 THEN MapDelete(l, ev) ELSE MapSet(l, ev, after)

\* History only: whether an off(ev, e) call finds a registration to remove.
Found(l, ev, e) == ev \in DOMAIN l /\ \E i \in 1..Len(l[ev]) : l[ev][i] = e

\* The running emit: the map, whether the array emit iterates is still the
\* one in the map (off deletes the key when the array empties, a later on
\* creates a new array; the old one stays empty), and the history: for each
\* element of the array its index when emit began (0: added since), the
\* indices unsubscribed since, and the calls made.
ApplyOn(st, ev, e) ==
    [st EXCEPT !.l = On(st.l, ev, e),
               !.net = [@ EXCEPT ![ev][e] = @ + 1],
               !.orig = Append(@, 0)]

ApplyOff(st, ev, e) ==
    LET l2 == Off(st.l, ev, e)
        i == IF ev \in DOMAIN st.l THEN IndexOf(st.l[ev], e) ELSE 0
    IN  [st EXCEPT !.l = l2,
                   !.live = @ /\ ev \in DOMAIN l2,
                   !.net = [@ EXCEPT ![ev][e] = IF Found(st.l, ev, e) THEN @ - 1 ELSE @],
                   !.orig = IF i > 0 THEN Splice(@, i) ELSE @,
                   !.offPos = IF i > 0 THEN @ \cup ({st.orig[i]} \ {0}) ELSE @,
                   !.unsubscribed = @ \/ Found(st.l, ev, e)]

\* A client callback's body, statement by statement; a throw ends it.
RECURSIVE RunBody(_, _, _, _)
RunBody(st, ev, ops, i) ==
    IF i > Len(ops) THEN [st |-> st, threw |-> FALSE]
    ELSE CASE ops[i].op = "throw" -> [st |-> st, threw |-> TRUE]
           [] ops[i].op = "on"    -> RunBody(ApplyOn(st, ev, Plain(ops[i].target)), ev, ops, i + 1)
           [] ops[i].op = "off"   -> RunBody(ApplyOff(st, ev, Plain(ops[i].target)), ev, ops, i + 1)

\* once's wrappedCallback: callback(data); this.off(event, wrappedCallback)
WrappedCallback(st, ev, e) ==
    LET r == RunBody(st, ev, Body(e.cb), 1)
    IN  IF r.threw THEN r
        ELSE [st |-> ApplyOff(r.st, ev, e), threw |-> FALSE]

\* callback(data) for a registered function
Call(st, ev, e) ==
    IF e.wid = 0 THEN RunBody(st, ev, Body(e.cb), 1) ELSE WrappedCallback(st, ev, e)

\* callbacks.forEach(callback => { try { callback(data) } catch { log } }):
\* forEach fixes the length when it starts, reads the live array at each
\* index and skips an index the array no longer has.  A raise is caught and
\* logged; the loop goes on.
RECURSIVE ForEach(_, _, _, _)
ForEach(st, ev, k, len) ==
    IF k > len THEN st
    ELSE LET callbacks == IF st.live THEN st.l[ev] ELSE << >>
         IN  IF k > Len(callbacks) THEN ForEach(st, ev, k + 1, len)
             ELSE LET e == callbacks[k]
                      r == Call(st, ev, e)
                  IN  ForEach([r.st EXCEPT !.log = Append(@, [e |-> e, pos |-> st.orig[k],
                                                               threw |-> r.threw])],
                              ev, k + 1, len)

\* emit(event, data)
Emit(l, n, ev) ==
    LET len == IF ev \in DOMAIN l THEN Len(l[ev]) ELSE 0
        st0 == [l |-> l, live |-> TRUE, net |-> n, orig |-> [i \in 1..len |-> i],
                log |-> << >>, offPos |-> {}, unsubscribed |-> FALSE]
    IN  IF ev \notin DOMAIN l THEN st0
        ELSE ForEach(st0, ev, 1, Len(l[ev]))

\* clear()
Clear(l) == << >>

(***************************************************************************)
(* EventBus: the state machine of its API calls                            *)
(***************************************************************************)
NoCall == [op |-> "none"]
NoChain == [wid |-> 0]

Registered(l) == Cardinality({p \in (DOMAIN l) \X (1..MaxListeners) : p[2] <= Len(l[p[1]])})

Held(l) == {e \in Entry : \E ev \in DOMAIN l : \E i \in 1..Len(l[ev]) : l[ev][i] = e}

BusOn(ev, c) ==
    /\ UNCHANGED <<varsAnim, varsScene, varsShell, varsLesson>>
    /\ Registered(listeners) < MaxListeners
    /\ listeners' = On(listeners, ev, Plain(c))
    /\ net' = [net EXCEPT ![ev][Plain(c)] = @ + 1]
    /\ last' = [op |-> "on"]
    /\ chain' = NoChain

BusOff(ev, c) ==
    /\ UNCHANGED <<varsAnim, varsScene, varsShell, varsLesson>>
    /\ listeners' = Off(listeners, ev, Plain(c))
    /\ net' = [net EXCEPT ![ev][Plain(c)] =
                  IF Found(listeners, ev, Plain(c)) THEN @ - 1 ELSE @]
    /\ last' = [op |-> "off", found |-> Found(listeners, ev, Plain(c)),
                 before |-> listeners]
    /\ chain' = NoChain

\* once(event, callback): builds a new wrapper and registers it with on
BusOnce(ev, c) ==
    /\ UNCHANGED <<varsAnim, varsScene, varsShell, varsLesson>>
    /\ Registered(listeners) < MaxListeners
    /\ \E w \in 1..MaxOnce :
          /\ \A e \in Held(listeners) : e.wid # w
          /\ \A v \in 1..(w - 1) : \E e \in Held(listeners) : e.wid = v
          /\ listeners' = On(listeners, ev, Wrapped(c, w))
          /\ net' = [net EXCEPT ![ev][Wrapped(c, w)] = @ + 1]
          /\ chain' = [wid |-> w, ev |-> ev, emits |-> 0, calls |-> 0]
    /\ last' = [op |-> "once"]

Count(s, e) == Cardinality({i \in 1..Len(s) : s[i] = e})

BusEmit(ev) ==
    LET st == Emit(listeners, net, ev)
        before == IF ev \in DOMAIN listeners THEN listeners[ev] ELSE << >>
    IN  /\ UNCHANGED <<varsAnim, varsScene, varsShell, varsLesson>>
        /\ listeners' = st.l
        /\ net' = st.net
        /\ last' = [op |-> "emit", ev |-> ev, before |-> before, log |-> st.log,
                    offPos |-> st.offPos, unsubscribed |-> st.unsubscribed,
                    returned |-> TRUE]
        /\ chain' = IF chain.wid # 0 /\ chain.ev = ev /\ chain.emits < 2
                    THEN [chain EXCEPT !.emits = @ + 1,
                                       !.calls = @ + Cardinality({i \in 1..Len(st.log) :
                                                      st.log[i].e.wid = chain.wid})]
                    ELSE NoChain

BusClear ==
    /\ UNCHANGED <<varsAnim, varsScene, varsShell, varsLesson>>
    /\ listeners # << >>
    /\ listeners' = Clear(listeners)
    /\ net' = [ev \in Events |-> [e \in Entry |-> 0]]
    /\ last' = [op |-> "clear"]
    /\ chain' = NoChain

NextBus ==
    \/ \E ev \in Events, c \in Callbacks : BusOn(ev, c)
    \/ \E ev \in Events, c \in Callbacks : BusOff(ev, c)
    \/ \E ev \in Events, c \in Callbacks : BusOnce(ev, c)
    \/ \E ev \in Events : BusEmit(ev)
    \/ BusClear

(***************************************************************************)
(* EventBus: claims                                                        *)
(***************************************************************************)
\* The indices, in the array emit began with, of the calls emit made, in
\* the order of the calls.
RECURSIVE Positions(_)
Positions(log) ==
    IF log = << >> THEN << >>
    ELSE <<Head(log).pos>> \o Positions(Tail(log))

RECURSIVE Without(_, _)
Without(s, drop) ==
    IF s = << >> THEN << >>
    ELSE IF Head(s) \in drop THEN Without(Tail(s), drop)
         ELSE <<Head(s)>> \o Without(Tail(s), drop)

\* C1: when a callback unsubscribed itself or another callback during an
\* emit, every callback registered when the emit began and not itself
\* unsubscribed during it was invoked exactly once.
C1_ReentrantEmitInvokesEachOnce ==
    (last.op = "emit" /\ last.unsubscribed) =>
        \A p \in (1..Len(last.before)) \ last.offPos :
            Count(Positions(last.log), p) = 1

\* C2: when a callback raised during an emit, every callback registered
\* after it (and not unsubscribed during the emit) was invoked after it, and
\* emit returned normally.
C2_RaiseDoesNotStopLaterCallbacks ==
    last.op = "emit" =>
        /\ last.returned
        /\ \A i \in 1..Len(last.log) :
              (last.log[i].threw /\ last.log[i].pos # 0) =>
                  \A p \in ((last.log[i].pos + 1)..Len(last.before)) \ last.offPos :
                      \E m \in (i + 1)..Len(last.log) : last.log[m].pos = p

\* C3: an emit invoked the callbacks registered when it began (those not
\* unsubscribed during it), each once, in subscription order, before it
\* returned.
C3_EmitInvokesAllInOrder ==
    last.op = "emit" =>
        Without(Positions(last.log), {0} \cup last.offPos) =
            Without([i \in 1..Len(last.before) |-> i], last.offPos)

\* C4: once(E, cb) followed by two emit(E) calls has invoked cb exactly once.
C4_OnceThenTwoEmitsInvokesOnce ==
    (chain.wid # 0 /\ chain.emits = 2) => chain.calls = 1

\* C5: the registrations of a callback under an event number the on calls
\* minus the off calls that found a registration, and an off call that found
\* none left the listener map as it was.
C5_NetRegistrationCount ==
    /\ \A ev \in Events, e \in Entry :
          net[ev][e] = (IF ev \in DOMAIN listeners THEN Count(listeners[ev], e) ELSE 0)
    /\ (last.op = "off" /\ ~last.found) => listeners = last.before

C5_Witness ==
    /\ last.op = "off" /\ ~last.found
    /\ \E e \in Entry : net["E"][e] = 2

\* C30: a callback registered with once(E, cb) is invoked at most once over
\* the emit(E) calls that follow, and when an emit(E) has returned no wrapper
\* registered before it is registered any more, whatever cb does.
C30_OnceInvokedAtMostOnce ==
    /\ chain.wid # 0 => chain.calls <= 1
    /\ last.op = "emit" =>
           \A i \in 1..Len(last.before) :
               last.before[i].wid # 0 => last.before[i] \notin Held(listeners)

(***************************************************************************)
(* GSAP timelines, as the Animator uses them                               *)
(***************************************************************************)
Speeds == {1, 2}
DefaultSpeed == 1

\* createTimeline's config: {paused: true, ...config} lets the caller's
\* config override paused; the lessons pass repeat and repeatDelay only.
Configs == {"default", "pausedFalse"}

\* gsap.timeline(vars): a new timeline at time 0 and timeScale 1
GsapTimeline(tls, cfg) ==
    LET id == CHOOSE t \in 1..(MaxTimelines + 1) : t \notin DOMAIN tls
                  /\ \A u \in 1..(t - 1) : u \in DOMAIN tls
    IN  [t \in DOMAIN tls \cup {id} |->
            IF t = id
            THEN [paused |-> (cfg = "default"), time |-> 0, timeScale |-> 1]
            ELSE tls[t]]

NewestTimeline(tls, before) == CHOOSE t \in DOMAIN tls : t \notin DOMAIN before

TlPlay(tls, t) == [tls EXCEPT ![t].paused = FALSE]
TlPause(tls, t) == [tls EXCEPT ![t].paused = TRUE]
TlSeek(tls, t, pos) == [tls EXCEPT ![t].time = pos]
TlTimeScale(tls, t, s) == [tls EXCEPT ![t].timeScale = s]
TlKill(tls, t) == [u \in DOMAIN tls \ {t} |-> tls[u]]

\* a timeline that is not paused (and not killed) is advanced by the ticker
Running(tls, t) == t \in DOMAIN tls /\ ~tls[t].paused

(***************************************************************************)
(* Animator.  An operation takes and returns [an, tls, threw]: the         *)
(* Animator's fields, GSAP's timelines, and whether the call raised        *)
(* (a method call on a null timeline raises a TypeError).                  *)
(***************************************************************************)
NoTimeline == 0

NewAnimator == [timeline |-> NoTimeline, speed |-> DefaultSpeed, isPlaying |-> FALSE]

\* this.timeline.<method>() on a null timeline: a TypeError
Raised(a) == [a EXCEPT !.threw = TRUE]

\* createTimeline(config)
CreateTimeline(a, cfg) ==
    LET tls2 == GsapTimeline(a.tls, cfg)
    IN  [a EXCEPT !.tls = tls2,
                  !.an.timeline = NewestTimeline(tls2, a.tls)]

\* play() without its null test
PlayNoNullTest(a) ==
    IF a.an.timeline = NoTimeline THEN Raised(a)
    ELSE [a EXCEPT !.tls = TlPlay(a.tls, a.an.timeline),
                   !.an.isPlaying = TRUE]

\* play()
Play(a) ==
    IF a.an.timeline = NoTimeline THEN a
    ELSE [a EXCEPT !.tls = TlPlay(a.tls, a.an.timeline),
                   !.an.isPlaying = TRUE]

\* pause()
Pause(a) ==
    IF a.an.timeline = NoTimeline THEN a
    ELSE [a EXCEPT !.tls = TlPause(a.tls, a.an.timeline),
                   !.an.isPlaying = FALSE]

\* toggle()
Toggle(a) == IF a.an.isPlaying THEN Pause(a) ELSE Play(a)

\* reset()
Reset(a) ==
    IF a.an.timeline = NoTimeline THEN a
    ELSE [a EXCEPT !.tls = TlPause(TlSeek(a.tls, a.an.timeline, 0), a.an.timeline),
                   !.an.isPlaying = FALSE]

\* setSpeed(speed)
SetSpeed(a, speed) ==
    LET b == [a EXCEPT !.an.speed = speed]
    IN  IF b.an.timeline # NoTimeline
        THEN [b EXCEPT !.tls = TlTimeScale(b.tls, b.an.timeline, speed)]
        ELSE b

\* destroy() without its null test: this.timeline.kill() on null raises
DestroyNoNullTest(a) ==
    IF a.an.timeline = NoTimeline THEN Raised(a)
    ELSE [a EXCEPT !.tls = TlKill(a.tls, a.an.timeline),
                   !.an.timeline = NoTimeline,
                   !.an.isPlaying = FALSE]

\* destroy()
Destroy(a) ==
    LET b == IF a.an.timeline # NoTimeline
             THEN [a EXCEPT !.tls = TlKill(a.tls, a.an.timeline),
                            !.an.timeline = NoTimeline]
             ELSE a
    IN  [b EXCEPT !.an.isPlaying = FALSE]

(***************************************************************************)
(* Animator: the state machine of its calls                                *)
(***************************************************************************)
Anim == [an |-> animator, tls |-> timelines, threw |-> FALSE]

AnimDone(op, arg, b) ==
    /\ UNCHANGED <<varsBus, varsScene, varsShell, varsLesson>>
    /\ animator' = b.an
    /\ timelines' = b.tls
    /\ lastAnim' = [op |-> op, arg |-> arg, threw |-> b.threw,
                    hadTimeline |-> animator.timeline # NoTimeline,
                    wasPlaying |-> animator.isPlaying]

AnimCreateTimeline(cfg) ==
    /\ Cardinality(DOMAIN timelines) < MaxTimelines
    /\ AnimDone("createTimeline", cfg, CreateTimeline(Anim, cfg))

AnimPlay == AnimDone("play", "", Play(Anim))

AnimPause == AnimDone("pause", "", Pause(Anim))

AnimToggle == AnimDone("toggle", "", Toggle(Anim))

AnimReset == AnimDone("reset", "", Reset(Anim))

AnimSetSpeed(speed) == AnimDone("setSpeed", speed, SetSpeed(Anim, speed))

AnimDestroy == AnimDone("destroy", "", Destroy(Anim))

\* GSAP's ticker advances a running timeline; repeat: -1 starts it over
GsapTick(t) ==
    /\ Running(timelines, t)
    /\ timelines' = [timelines EXCEPT ![t].time = (@ + 1) % (MaxTime + 1)]
    /\ UNCHANGED <<animator, lastAnim, varsBus, varsScene, varsShell, varsLesson>>

NextAnim ==
    \/ \E cfg \in Configs : AnimCreateTimeline(cfg)
    \/ AnimPlay
    \/ AnimPause
    \/ AnimToggle
    \/ AnimReset
    \/ \E speed \in Speeds : AnimSetSpeed(speed)
    \/ AnimDestroy
    \/ \E t \in DOMAIN timelines : GsapTick(t)

(***************************************************************************)
(* Animator: claims                                                        *)
(***************************************************************************)
\* C6: at no time do two live (un-killed) timelines created by the Animator
\* exist: createTimeline stops and releases the previous timeline first.
C6_AtMostOneLiveTimeline ==
    Cardinality(DOMAIN timelines) <= 1

\* C7: setSpeed(m) applies to the current timeline at once, and a timeline
\* created afterwards plays at the Animator's speed.
C7_SpeedAppliesToNewTimeline ==
    /\ (lastAnim.op = "setSpeed" /\ lastAnim.hadTimeline) =>
           timelines[animator.timeline].timeScale = lastAnim.arg
    /\ lastAnim.op = "createTimeline" =>
           timelines[animator.timeline].timeScale = animator.speed

\* C8: without a timeline, play, pause, reset and setSpeed do not raise and
\* leave the Animator without a timeline and not playing.
C8_TransportWithoutTimelineIsNoOp ==
    (lastAnim.op \in {"play", "pause", "reset", "setSpeed"} /\ ~lastAnim.hadTimeline) =>
        /\ ~lastAnim.threw
        /\ animator.timeline = NoTimeline
        /\ ~animator.isPlaying

C8_Witness ==
    /\ lastAnim.op = "play" /\ ~lastAnim.hadTimeline
    /\ animator.speed # DefaultSpeed

\* C9: createTimeline (with the default config) leaves the Animator paused
\* whatever its state before, play and pause switch between playing and
\* paused, reset leaves it paused at time zero, destroy leaves it without a
\* timeline and not playing.
C9_AnimatorStateMachine ==
    /\ (lastAnim.op = "createTimeline" /\ lastAnim.arg = "default") =>
           ~animator.isPlaying /\ ~Running(timelines, animator.timeline)
    /\ (lastAnim.op = "play" /\ lastAnim.hadTimeline) =>
           animator.isPlaying /\ Running(timelines, animator.timeline)
    /\ (lastAnim.op = "pause" /\ lastAnim.hadTimeline) =>
           ~animator.isPlaying /\ ~Running(timelines, animator.timeline)
    /\ (lastAnim.op = "reset" /\ lastAnim.hadTimeline) =>
           /\ ~animator.isPlaying /\ ~Running(timelines, animator.timeline)
           /\ timelines[animator.timeline].time = 0
    /\ lastAnim.op = "destroy" =>
           animator.timeline = NoTimeline /\ ~animator.isPlaying

(***************************************************************************)
(* Scene.  An operation takes and returns [sc, elements, viz, a, setups]:  *)
(* the scene's fields, its registry, the render root's children, its       *)
(* Animator (with GSAP's timelines) and the setup() calls made.            *)
(***************************************************************************)
SceneClasses == {"base", "lesson"}

\* ids given to addElement and removeElement
ElementIds == {"producer", "consumer-0", "message-0"}
SetupOutcomes == {"ok", "raises"}

\* document.createElementNS(...): a new element, told apart by identity
NewElement(s) ==
    LET used == s.viz \cup {s.elements[k] : k \in DOMAIN s.elements}
    IN  CHOOSE n \in 1..(Cardinality(used) + 1) :
            n \notin used /\ \A m \in 1..(n - 1) : m \in used

\* clear()
SceneClear(s) == [s EXCEPT !.viz = {}, !.elements = << >>]

\* addElement(id, element)
AddElement(s, id, el) ==
    [s EXCEPT !.elements = MapSet(@, id, el), !.viz = @ \cup {el}]

\* removeElement(id) that forgets to detach the element
RemoveElementKeepsAttached(s, id) ==
    IF id \in DOMAIN s.elements THEN [s EXCEPT !.elements = MapDelete(@, id)] ELSE s

\* removeElement(id)
RemoveElement(s, id) ==
    IF id \in DOMAIN s.elements
    THEN [s EXCEPT !.viz = @ \ {s.elements[id]}, !.elements = MapDelete(@, id)]
    ELSE s

\* setup(): the base class's does nothing; a lesson's renders its entities
\* and builds its timeline (Lesson5_Offsets.setup); either may raise, a
\* lesson's here after its first entity.
Setup(s, class, outcome) ==
    IF class = "base" THEN s
    ELSE LET s1 == AddElement(s, "producer", NewElement(s))
             s2 == AddElement(s1, "consumer-0", NewElement(s1))
         IN  IF outcome = "raises" THEN s1
             ELSE [s2 EXCEPT !.a = CreateTimeline(s2.a, "default")]

\* init() up to its await, with the isInitialized test left out
InitToAwaitNoTest(s, class, outcome) ==
    [Setup(SceneClear(s), class, outcome) EXCEPT !.setups = @ + 1]

\* init() up to its await: if (this.isInitialized) return; this.clear();
\* await this.setup()
InitToAwait(s, class, outcome) ==
    IF s.sc.isInitialized THEN s
    ELSE [Setup(SceneClear(s), class, outcome) EXCEPT !.setups = @ + 1]

\* init() after its await: this.isInitialized = true; emit('scene:ready')
InitAfterAwait(s) == [s EXCEPT !.sc.isInitialized = TRUE, !.ready = TRUE]

\* init() after a raising setup() with the body's two statements in a finally block
InitAfterRaiseFinally(s) == [InitAfterAwait(s) EXCEPT !.threw = TRUE]

\* init() after its await when setup() raised: the await rethrows, the rest
\* of the body is not run, the promise init() returned rejects
InitAfterRaise(s) == [s EXCEPT !.threw = TRUE]

\* destroy(): this.animator.destroy(); this.clear(); this.isInitialized =
\* false.  A raise in the first statement would end the call there.
SceneDestroyed(s) ==
    LET s1 == [s EXCEPT !.a = Destroy(s.a)]
    IN  IF s1.a.threw THEN [s1 EXCEPT !.threw = TRUE]
        ELSE [SceneClear(s1) EXCEPT !.sc.isInitialized = FALSE]

(***************************************************************************)
(* Scene: the state machine of its calls                                   *)
(***************************************************************************)
TheScene == [sc |-> scene, elements |-> elements, viz |-> vizGroup, a |-> Anim,
             setups |-> hist.setups, ready |-> FALSE, threw |-> FALSE]

NewHist == [calls |-> 0, setups |-> 0, overlapped |-> FALSE, failed |-> FALSE,
            reused |-> FALSE]

SceneDone(s) ==
    /\ scene' = s.sc
    /\ elements' = s.elements
    /\ vizGroup' = s.viz
    /\ animator' = s.a.an
    /\ timelines' = s.a.tls

\* eventBus.emit(event) from the scene
Publish(ev) ==
    /\ listeners' = Emit(listeners, net, ev).l
    /\ net' = Emit(listeners, net, ev).net
    /\ UNCHANGED <<last, chain>>

\* init() is called and runs to its await (or returns at once)
SceneInit(outcome) ==
    LET s == InitToAwait(TheScene, sceneClass, outcome)
        suspends == s.setups # hist.setups
    IN  /\ hist.calls < MaxInits
        /\ Len(pending) < MaxInits
        /\ Cardinality(DOMAIN s.a.tls) <= MaxTimelines
        /\ SceneDone(s)
        /\ pending' = IF suspends THEN Append(pending, outcome) ELSE pending
        /\ hist' = [hist EXCEPT !.calls = @ + 1,
                                !.setups = s.setups,
                                !.overlapped = @ \/ pending # << >>]
        /\ lastScene' = [op |-> "init", wasInitialized |-> scene.isInitialized]
        /\ UNCHANGED <<varsBus, lastAnim, sceneClass, varsShell, varsLesson>>

\* the oldest suspended init() resumes after a setup() that returned
SceneInitResumes ==
    /\ pending # << >> /\ Head(pending) = "ok"
    /\ SceneDone(InitAfterAwait(TheScene))
    /\ Publish("scene:ready")
    /\ pending' = Tail(pending)
    /\ lastScene' = [op |-> "ready"]
    /\ UNCHANGED <<lastAnim, sceneClass, varsShell, varsLesson, hist>>

\* the oldest suspended init() rejects after a setup() that raised
SceneInitRejects ==
    /\ pending # << >> /\ Head(pending) = "raises"
    /\ SceneDone(InitAfterRaise(TheScene))
    /\ pending' = Tail(pending)
    /\ hist' = [hist EXCEPT !.failed = InitAfterRaise(TheScene).threw]
    /\ IF InitAfterRaise(TheScene).ready
       THEN Publish("scene:ready")
       ELSE UNCHANGED varsBus
    /\ lastScene' = [op |-> "initRejected", wasInitialized |-> scene.isInitialized,
                      threw |-> InitAfterRaise(TheScene).threw,
                      ready |-> InitAfterRaise(TheScene).ready]
    /\ UNCHANGED <<lastAnim, sceneClass, varsShell, varsLesson>>

\* play()
ScenePlay ==
    /\ SceneDone([TheScene EXCEPT !.a = Play(@)])
    /\ Publish("scene:play")
    /\ lastScene' = [op |-> "play"]
    /\ UNCHANGED <<lastAnim, sceneClass, varsShell, varsLesson, pending, hist>>

\* pause()
ScenePause ==
    /\ SceneDone([TheScene EXCEPT !.a = Pause(@)])
    /\ Publish("scene:pause")
    /\ lastScene' = [op |-> "pause"]
    /\ UNCHANGED <<lastAnim, sceneClass, varsShell, varsLesson, pending, hist>>

\* reset()
SceneReset ==
    /\ SceneDone([TheScene EXCEPT !.a = Reset(@)])
    /\ Publish("scene:reset")
    /\ lastScene' = [op |-> "reset"]
    /\ UNCHANGED <<lastAnim, sceneClass, varsShell, varsLesson, pending, hist>>

\* setSpeed(speed)
SceneSetSpeed(speed) ==
    /\ SceneDone([TheScene EXCEPT !.a = SetSpeed(@, speed)])
    /\ lastScene' = [op |-> "setSpeed"]
    /\ UNCHANGED <<varsBus, lastAnim, sceneClass, varsShell, varsLesson, pending, hist>>

\* destroy()
SceneDestroy ==
    /\ SceneDone(SceneDestroyed(TheScene))
    /\ hist' = [NewHist EXCEPT !.overlapped = pending # << >>]
    /\ lastScene' = [op |-> "destroy", threw |-> SceneDestroyed(TheScene).threw,
                      wasInitialized |-> scene.isInitialized,
                      before |-> lastScene.op]
    /\ UNCHANGED <<varsBus, lastAnim, sceneClass, varsShell, varsLesson, pending>>

\* the elements the registry holds
RegisteredElements(els) == {els[k] : k \in DOMAIN els}

\* addElement(id, element), called by a subclass or from outside, with a new
\* element or one created before.  History: whether a call since the last
\* clear() reused a registered id or an element already added.
SceneAddElement(id) ==
    \E el \in {NewElement(TheScene)} \cup RegisteredElements(elements) \cup vizGroup :
        /\ Cardinality(vizGroup \cup {el}) <= MaxElements
        /\ SceneDone(AddElement(TheScene, id, el))
        /\ hist' = [hist EXCEPT !.reused = @ \/ id \in DOMAIN elements
                                            \/ el \in RegisteredElements(elements) \cup vizGroup]
        /\ lastScene' = [op |-> "addElement"]
        /\ UNCHANGED <<varsBus, lastAnim, sceneClass, varsShell, varsLesson, pending>>

\* removeElement(id)
SceneRemoveElement(id) ==
    /\ SceneDone(RemoveElement(TheScene, id))
    /\ lastScene' = [op |-> "removeElement", found |-> id \in DOMAIN elements]
    /\ UNCHANGED <<varsBus, lastAnim, sceneClass, varsShell, varsLesson, pending, hist>>

\* clear()
SceneClearCall ==
    /\ SceneDone(SceneClear(TheScene))
    /\ hist' = [hist EXCEPT !.reused = FALSE]
    /\ lastScene' = [op |-> "clear"]
    /\ UNCHANGED <<varsBus, lastAnim, sceneClass, varsShell, varsLesson, pending>>

NextRegistry ==
    \/ \E id \in ElementIds : SceneAddElement(id)
    \/ \E id \in ElementIds : SceneRemoveElement(id)
    \/ SceneClearCall

NextScene ==
    \/ \E outcome \in SetupOutcomes : SceneInit(outcome)
    \/ SceneInitResumes
    \/ SceneInitRejects
    \/ ScenePlay
    \/ ScenePause
    \/ SceneReset
    \/ \E speed \in Speeds : SceneSetSpeed(speed)
    \/ SceneDestroy

(***************************************************************************)
(* Scene: claims                                                           *)
(***************************************************************************)
\* C10: init() called again after an init() that completed, with no
\* destroy() between, does not invoke setup() again: two or more init()
\* calls in a row have invoked setup() exactly once.
C10_InitTwiceSetupOnce ==
    (hist.calls >= 2 /\ ~hist.overlapped /\ ~hist.failed) => hist.setups = 1

C10_Witness ==
    /\ hist.calls = 2 /\ ~hist.overlapped /\ ~hist.failed
    /\ lastScene.op = "init" /\ lastScene.wasInitialized
    /\ scene.isInitialized /\ pending = << >>

\* C11: an init() whose setup() raised rejects to its caller, does not set
\* isInitialized (it is false afterwards unless another init() call set it
\* meanwhile) and publishes no scene:ready.
C11_SetupRaiseLeavesUninitialized ==
    lastScene.op = "initRejected" =>
        /\ lastScene.threw
        /\ ~lastScene.ready
        /\ scene.isInitialized = lastScene.wasInitialized
        /\ ~hist.overlapped => ~scene.isInitialized

\* C13: destroy(), called once, twice in a row or on a scene that was never
\* initialized, does not raise and leaves the element registry empty, the
\* Animator without a timeline and isInitialized false.
C13_DestroyIdempotent ==
    lastScene.op = "destroy" =>
        /\ ~lastScene.threw
        /\ elements = << >>
        /\ animator.timeline = NoTimeline /\ ~animator.isPlaying
        /\ ~scene.isInitialized

\* two destroy() calls in a row: the second finds no timeline and no element
C13_Witness ==
    /\ lastScene.op = "destroy" /\ lastScene.before = "destroy"
    /\ hist.calls = 0 /\ sceneClass = "lesson"

C11_Witness ==
    /\ lastScene.op = "initRejected" /\ ~hist.overlapped
    /\ hist.calls = 1 /\ sceneClass = "lesson" /\ elements # << >>

(***************************************************************************)
(* The lessons: Lesson2_Partitions (src/unnamed/part_002),                 *)
(* Lesson4_ConsumerGroups, Lesson4_PartitionerStrategies and               *)
(* Lesson6_Rebalancing (Lesson2_Partitions.js) and Lesson5_Offsets.  An    *)
(* operation takes and returns [s, l, tokens, rebalances, born]: the       *)
(* Scene, the lesson's own fields, GSAP's per-token timelines, the         *)
(* rebalance() calls waiting on their timer, and the Message objects       *)
(* created so far.  Fields a class does not have keep their first value.   *)
(* consumerHistory and the text of the displays are left out: nothing      *)
(* reads them back.                                                        *)
(***************************************************************************)
LessonClasses == {"Lesson2_Partitions", "Lesson4_ConsumerGroups",
                  "Lesson4_PartitionerStrategies", "Lesson5_Offsets",
                  "Lesson6_Rebalancing"}

\* the classes whose createAndAnimateMessage routes by this.roundRobinIndex
RoundRobinClasses == {"Lesson2_Partitions", "Lesson4_ConsumerGroups", "Lesson6_Rebalancing"}

\* this.partitionCount
PartitionCount(class) == IF class = "Lesson5_Offsets" THEN 1 ELSE 3

\* this.stickyBatchSize
StickyBatchSize == 4

\* this.partitionAssignments, as the constructor sets it
InitialAssignments(class) ==
    IF class = "Lesson4_ConsumerGroups" THEN [p \in 0..2 |-> p]
    ELSE [p \in 0..(PartitionCount(class) - 1) |-> 0]

\* the fields a lesson's constructor sets
NewLesson(class) ==
    [messageCount |-> 0, globalMessageCount |-> 0, roundRobinIndex |-> 0,
     stickyPartitionIndex |-> 0, stickyBatchCount |-> 0,
     partitionSequence |-> [p \in 0..(PartitionCount(class) - 1) |-> 0],
     load |-> [i \in 0..2 |-> 0],
     latestOffset |-> 0, consumerOffset |-> 0,
     isRebalancing |-> FALSE, activeConsumerCount |-> 1,
     partitionAssignments |-> InitialAssignments(class),
     messages |-> << >>, inflightMessages |-> << >>]

\* `message-${n}`
MessageKey(n) == "message-" \o ToString(n)

\* the index of the load gauge a token counts in: brokerLoad and
\* partitionLoad go by partition, consumerLoad by consumer; Lesson5_Offsets
\* has no gauge (-1)
Gauge(class, partitionIndex, consumerIndex) ==
    CASE class \in {"Lesson2_Partitions", "Lesson4_PartitionerStrategies"} -> partitionIndex
      [] class \in {"Lesson4_ConsumerGroups", "Lesson6_Rebalancing"} -> consumerIndex
      [] OTHER -> -1

\* a spawn callback that never skips
SkipsSpawnNever(class, l) == FALSE

\* if (!this.isRebalancing) in the spawn callbacks of Lesson6_Rebalancing,
\* and if (this.isRebalancing) return; in its createAndAnimateMessage
SkipsSpawn(class, l) == class = "Lesson6_Rebalancing" /\ l.isRebalancing

\* round-robin routing that advances by two
NextRoundRobinByTwo(class, index) == (index + 2) % PartitionCount(class)

\* (this.roundRobinIndex + 1) % this.partitionCount
NextRoundRobin(class, index) == (index + 1) % PartitionCount(class)

\* the sticky partitioner switching one message late
StickyAdvanceLate(l) ==
    IF l.stickyBatchCount + 1 > StickyBatchSize
    THEN [l EXCEPT !.stickyBatchCount = 0,
                   !.stickyPartitionIndex =
                       (@ + 1) % PartitionCount("Lesson4_PartitionerStrategies")]
    ELSE [l EXCEPT !.stickyBatchCount = @ + 1]

\* this.stickyBatchCount++; if (this.stickyBatchCount >= this.stickyBatchSize)
\* { this.stickyBatchCount = 0; this.stickyPartitionIndex = (... + 1) % 3 }
StickyAdvance(l) ==
    IF l.stickyBatchCount + 1 >= StickyBatchSize
    THEN [l EXCEPT !.stickyBatchCount = 0,
                   !.stickyPartitionIndex =
                       (@ + 1) % PartitionCount("Lesson4_PartitionerStrategies")]
    ELSE [l EXCEPT !.stickyBatchCount = @ + 1]

\* createAndAnimateMessage(): the new token's timeline starts at once, in
\* GSAP's global timeline, whatever the main timeline does.  The element
\* message.render() returns is named after the Message object (-uid).
CreateAndAnimateMessage(w, class) ==
    LET l == w.l
        messageId == l.messageCount
        partitionIndex == CASE class \in RoundRobinClasses -> l.roundRobinIndex
                            [] class = "Lesson4_PartitionerStrategies" -> l.stickyPartitionIndex
                            [] OTHER -> 0
        consumerIndex == IF class = "Lesson4_PartitionerStrategies" THEN 0
                         ELSE l.partitionAssignments[partitionIndex]
        gauge == Gauge(class, partitionIndex, consumerIndex)
        messageOffset == l.latestOffset
        uid == w.born + 1
        el == -uid
        l1 == [l EXCEPT !.messageCount = @ + 1,
                        !.roundRobinIndex = IF class \in RoundRobinClasses
                                            THEN NextRoundRobin(class, @) ELSE @]
        l2 == IF class = "Lesson4_PartitionerStrategies" THEN StickyAdvance(l1) ELSE l1
        l3 == IF class = "Lesson5_Offsets"
              THEN [l2 EXCEPT !.latestOffset = @ + 1,
                              !.inflightMessages = Append(@, [messageId |-> messageId,
                                                              offset |-> messageOffset])]
              ELSE [l2 EXCEPT !.partitionSequence[partitionIndex] = @ + 1,
                              !.globalMessageCount = @ + 1,
                              !.load[gauge] = @ + 1]
        l4 == [l3 EXCEPT !.messages = Append(@, [uid |-> uid, id |-> messageId])]
        token == [uid |-> uid, messageId |-> messageId, el |-> el, offset |-> messageOffset,
                  partitionIndex |-> partitionIndex, consumerIndex |-> consumerIndex,
                  phase |-> "travel"]
    IN  IF SkipsSpawn(class, l) THEN w
        ELSE [w EXCEPT !.l = l4,
                       !.s = AddElement(w.s, MessageKey(messageId), el),
                       !.tokens = Append(@, token),
                       !.born = uid]

\* the onStart callback of a token's last tween: Lesson5_Offsets commits
\* the offset; the other lessons update the consumer's history display
OnStart(w, class, k) ==
    [w EXCEPT !.tokens[k].phase = "consume",
              !.l.consumerOffset = IF class = "Lesson5_Offsets"
                                   THEN w.tokens[k].offset + 1 ELSE @]

\* array.indexOf / findIndex on a field of the array's records (0: none)
IndexOfUid(messages, uid) ==
    IF \E i \in 1..Len(messages) : messages[i].uid = uid
    THEN CHOOSE i \in 1..Len(messages) :
             messages[i].uid = uid /\ \A j \in 1..(i - 1) : messages[j].uid # uid
    ELSE 0

FindIndexOfMessageId(inflight, messageId) ==
    IF \E i \in 1..Len(inflight) : inflight[i].messageId = messageId
    THEN CHOOSE i \in 1..Len(inflight) :
             inflight[i].messageId = messageId
             /\ \A j \in 1..(i - 1) : inflight[j].messageId # messageId
    ELSE 0

\* a completion that leaves the gauge as it is
NotDecremented(n) == n

\* Math.max(0, n - 1)
Decremented(n) == IF n - 1 > 0 THEN n - 1 ELSE 0

\* the onComplete callback of a token's timeline
OnComplete(w, class, k) ==
    LET t == w.tokens[k]
        l == w.l
        index == IndexOfUid(l.messages, t.uid)
        inflightIndex == FindIndexOfMessageId(l.inflightMessages, t.messageId)
        gauge == Gauge(class, t.partitionIndex, t.consumerIndex)
        l1 == [l EXCEPT !.messages = IF index > 0 THEN Splice(@, index) ELSE @]
        l2 == IF class = "Lesson5_Offsets"
              THEN [l1 EXCEPT !.inflightMessages =
                                  IF inflightIndex > 0 THEN Splice(@, inflightIndex) ELSE @]
              ELSE [l1 EXCEPT !.load[gauge] = Decremented(@)]
    IN  [w EXCEPT !.s = RemoveElement(w.s, MessageKey(t.messageId)),
                  !.l = l2,
                  !.tokens = Splice(@, k)]

\* the table rebalance(newConsumerCount) installs
AssignmentsFor(newConsumerCount) ==
    CASE newConsumerCount = 1 -> [p \in 0..2 |-> 0]
      [] newConsumerCount = 2 -> [p \in 0..2 |-> IF p = 2 THEN 1 ELSE 0]
      [] newConsumerCount = 3 -> [p \in 0..2 |-> p]

\* removeElement(id) for each of the ids
Removed(s, ids) ==
    LET keys == {ids[i] : i \in 1..Len(ids)}
    IN  [s EXCEPT !.viz = @ \ {s.elements[k] : k \in keys \cap DOMAIN s.elements},
                  !.elements = [x \in DOMAIN s.elements \ keys |-> s.elements[x]]]

\* addElement(id, a new element) for each of the ids (all different) in
\* turn: the i-th gets the i-th new element
Added(s, ids) ==
    LET used == s.viz \cup {s.elements[k] : k \in DOMAIN s.elements}
        Fresh(i) == CHOOSE m \in 1..(Cardinality(used) + i) :
                        m \notin used /\ Cardinality({x \in 1..m : x \notin used}) = i
        keys == {ids[i] : i \in 1..Len(ids)}
        At(x) == CHOOSE i \in 1..Len(ids) : ids[i] = x
    IN  [s EXCEPT !.viz = @ \cup {Fresh(i) : i \in 1..Len(ids)},
                  !.elements = [x \in DOMAIN s.elements \cup keys |->
                                   IF x \in keys THEN Fresh(At(x)) ELSE s.elements[x]]]

LineKeys == <<"line-broker-consumer-0", "line-broker-consumer-1", "line-broker-consumer-2">>

BadgeKeysOf(i, p) ==
    <<"consumer-badge-" \o ToString(i) \o "-" \o ToString(p),
      "consumer-badge-label-" \o ToString(i) \o "-" \o ToString(p)>>

AllBadgeKeys ==
    BadgeKeysOf(0, 0) \o BadgeKeysOf(0, 1) \o BadgeKeysOf(0, 2) \o
    BadgeKeysOf(1, 0) \o BadgeKeysOf(1, 1) \o BadgeKeysOf(1, 2) \o
    BadgeKeysOf(2, 0) \o BadgeKeysOf(2, 1) \o BadgeKeysOf(2, 2)

\* the badges of the partitions assigned to each consumer, consumer by consumer
AssignedBadgeKeys(assignments) ==
    LET K(i, p) == IF assignments[p] = i THEN BadgeKeysOf(i, p) ELSE << >>
    IN  K(0, 0) \o K(0, 1) \o K(0, 2) \o K(1, 0) \o K(1, 1) \o K(1, 2) \o
        K(2, 0) \o K(2, 1) \o K(2, 2)

\* updateConsumerPartitionBadges()
UpdateConsumerPartitionBadges(s, assignments) ==
    Added(Removed(s, AllBadgeKeys), AssignedBadgeKeys(assignments))

\* showConsumer(index)
ShowConsumer(s, index, assignments) ==
    LET id == "consumer-" \o ToString(index)
        s1 == IF id \notin DOMAIN s.elements THEN AddElement(s, id, NewElement(s)) ELSE s
    IN  UpdateConsumerPartitionBadges(s1, assignments)

\* rebalance(newConsumerCount) up to its await
RebalanceToAwait(w, newConsumerCount) ==
    [w EXCEPT !.l.isRebalancing = TRUE,
              !.l.activeConsumerCount = newConsumerCount,
              !.rebalances = Append(@, newConsumerCount)]

\* rebalance(newConsumerCount) after its await, when the timer has fired
RebalanceAfterAwait(w) ==
    LET newConsumerCount == Head(w.rebalances)
        assignments == AssignmentsFor(newConsumerCount)
        s1 == IF newConsumerCount >= 2 THEN ShowConsumer(w.s, 1, assignments) ELSE w.s
        s2 == IF newConsumerCount = 3 THEN ShowConsumer(s1, 2, assignments) ELSE s1
        s3 == Added(Removed(s2, LineKeys), LineKeys)
        s4 == UpdateConsumerPartitionBadges(s3, assignments)
    IN  [w EXCEPT !.l.partitionAssignments = assignments,
                  !.l.isRebalancing = FALSE,
                  !.s = s4,
                  !.rebalances = Tail(@)]

\* gsap.killTweensOf(el) for the element of each message in this.messages:
\* the token's tweens, its onStart with them, are gone.  Only
\* Lesson4_PartitionerStrategies looks the element up by msg.id; the other
\* lessons look up `message-${msg.id}`, a key no element has.
KillTweens(w, class) ==
    LET els == {w.s.elements[MessageKey(w.l.messages[i].id)] :
                    i \in {j \in 1..Len(w.l.messages) :
                              MessageKey(w.l.messages[j].id) \in DOMAIN w.s.elements}}
    IN  IF class = "Lesson4_PartitionerStrategies"
        THEN [w EXCEPT !.tokens = [k \in 1..Len(w.tokens) |->
                                      IF w.tokens[k].el \in els
                                      THEN [w.tokens[k] EXCEPT !.phase = "killed"]
                                      ELSE w.tokens[k]]]
        ELSE w

\* the fields a lesson's destroy() resets before super.destroy()
LessonReset(l, class) ==
    LET l1 == [l EXCEPT !.messages = << >>, !.messageCount = 0]
    IN  CASE class = "Lesson5_Offsets" ->
               [l1 EXCEPT !.latestOffset = 0, !.consumerOffset = 0,
                          !.inflightMessages = << >>]
          [] class = "Lesson4_PartitionerStrategies" ->
               [l1 EXCEPT !.partitionSequence = [p \in 0..2 |-> 0],
                          !.load = [i \in 0..2 |-> 0],
                          !.globalMessageCount = 0,
                          !.stickyBatchCount = 0, !.stickyPartitionIndex = 0]
          [] OTHER ->
               [l1 EXCEPT !.partitionSequence = [p \in 0..2 |-> 0],
                          !.load = [i \in 0..2 |-> 0],
                          !.globalMessageCount = 0]

\* a lesson's destroy()
LessonDestroyed(w, class) ==
    LET w1 == IF class = "Lesson6_Rebalancing" THEN w ELSE KillTweens(w, class)
    IN  [w1 EXCEPT !.l = LessonReset(w1.l, class),
                   !.s = SceneDestroyed(w1.s)]

(***************************************************************************)
(* The lessons: the state machine of a lesson scene.  The Scene calls are  *)
(* the ones above (a lesson overrides setup and destroy only); the         *)
(* callbacks are GSAP's and the timer's.  Which callback of the main       *)
(* timeline is due is not tracked: while the timeline runs, a spawn        *)
(* callback may fire, and in Lesson6_Rebalancing the rebalance call that   *)
(* follows the last one in the timeline (2, 3, 1, ...) or, after a         *)
(* reset(), the first one (2).  All tokens of a lesson take the same time, *)
(* so their callbacks fire in the order the tokens were created.  The      *)
(* scene is used as the shell uses one: init() once after construction,    *)
(* destroy() once, no call after that.                                     *)
(***************************************************************************)
TheLesson == [s |-> TheScene, l |-> lesson, tokens |-> tokens,
              rebalances |-> rebalances, born |-> lessonHist.born]

NewLessonHist == [born |-> 0, assigned |-> << >>, everDestroyed |-> FALSE, started |-> << >>]

LessonDone(w) ==
    /\ SceneDone(w.s)
    /\ lesson' = w.l
    /\ tokens' = w.tokens
    /\ rebalances' = w.rebalances

\* this.latestOffsets[0] - this.consumerOffsets[0]
Lag(l) == l.latestOffset - l.consumerOffset

\* history: the callback that fired, and whether destroy() had completed
Fired(op) ==
    lastLesson' = [op |-> op, torn |-> lessonHist.everDestroyed]

\* the shell's loadLesson calls init() on the scene it constructed
LessonInit ==
    /\ hist.calls = 0 /\ ~lessonHist.everDestroyed
    /\ SceneInit("ok")

\* a playPause event of the controls reaches the current scene
LessonPlay ==
    /\ ~lessonHist.everDestroyed
    /\ ScenePlay

LessonPause ==
    /\ ~lessonHist.everDestroyed
    /\ ScenePause

\* a reset event of the controls reaches the current scene: Scene.reset(),
\* which no lesson overrides
LessonResetCall ==
    /\ ~lessonHist.everDestroyed
    /\ SceneReset

MainTimelineRuns == \E t \in DOMAIN timelines : Running(timelines, t)

\* a spawn callback of the main timeline fires
LessonSpawn ==
    LET w == CreateAndAnimateMessage(TheLesson, sceneClass)
    IN  /\ MainTimelineRuns
        /\ lessonHist.born < MaxTokens
        /\ Len(tokens) < MaxInflight
        /\ LessonDone(w)
        /\ lessonHist' = [lessonHist EXCEPT
                              !.born = w.born,
                              !.assigned = IF w.born # lessonHist.born
                                           THEN Append(lessonHist.assigned,
                                                       w.tokens[Len(w.tokens)].partitionIndex)
                                           ELSE lessonHist.assigned]
        /\ Fired("spawn")
        /\ UNCHANGED <<varsBus, lastAnim, sceneClass, pending, hist, lastScene, varsShell,
                       mainTimeline>>

\* history of a rebalance() call that asks for another count than the active one
OtherCount == [active |-> 0, table |-> << >>]

\* a rebalance callback of the main timeline fires (Lesson6_Rebalancing); the
\* history keeps the table a call found when it asks for the active count
LessonRebalance(newConsumerCount) ==
    /\ sceneClass = "Lesson6_Rebalancing"
    /\ MainTimelineRuns
    /\ Len(rebalances) < MaxRebalances
    /\ newConsumerCount \in {2, (lesson.activeConsumerCount % 3) + 1}
    /\ LessonDone(RebalanceToAwait(TheLesson, newConsumerCount))
    /\ Fired("rebalance")
    /\ lessonHist' = [lessonHist EXCEPT !.started =
                          Append(@, IF lesson.activeConsumerCount = newConsumerCount
                                    THEN [active |-> lesson.activeConsumerCount,
                                          table |-> lesson.partitionAssignments]
                                    ELSE OtherCount)]
    /\ UNCHANGED <<varsBus, lastAnim, sceneClass, pending, hist, lastScene, varsShell,
                   mainTimeline>>

\* the timer of the oldest suspended rebalance() fires
LessonRebalanceResumes ==
    /\ rebalances # << >>
    /\ LessonDone(RebalanceAfterAwait(TheLesson))
    /\ lastLesson' = [op |-> "rebalanceResumes", torn |-> lessonHist.everDestroyed,
                       newConsumerCount |-> Head(rebalances),
                       active |-> Head(lessonHist.started).active,
                       table |-> Head(lessonHist.started).table]
    /\ lessonHist' = [lessonHist EXCEPT !.started = Tail(@)]
    /\ UNCHANGED <<varsBus, lastAnim, sceneClass, pending, hist, lastScene, varsShell,
                   mainTimeline>>

\* the oldest token still travelling reaches the consumer
TokenOnStart ==
    \E k \in 1..Len(tokens) :
        /\ tokens[k].phase = "travel"
        /\ \A j \in 1..(k - 1) : tokens[j].phase # "travel"
        /\ LessonDone(OnStart(TheLesson, sceneClass, k))
        /\ Fired("onStart")
        /\ UNCHANGED <<varsBus, lastAnim, sceneClass, pending, hist, lastScene, varsShell,
                       mainTimeline, lessonHist>>

\* the oldest token being consumed completes; a timeline whose tweens were
\* killed is empty and may complete at any tick
TokenOnComplete ==
    \E k \in 1..Len(tokens) :
        /\ \/ tokens[k].phase = "killed"
           \/ tokens[k].phase = "consume" /\ \A j \in 1..(k - 1) : tokens[j].phase # "consume"
        /\ LessonDone(OnComplete(TheLesson, sceneClass, k))
        /\ Fired("onComplete")
        /\ UNCHANGED <<varsBus, lastAnim, sceneClass, pending, hist, lastScene, varsShell,
                       mainTimeline, lessonHist>>

\* the shell destroys the scene, once, when it switches lessons
LessonDestroy ==
    /\ ~lessonHist.everDestroyed
    /\ LessonDone(LessonDestroyed(TheLesson, sceneClass))
    /\ hist' = [NewHist EXCEPT !.overlapped = pending # << >>]
    /\ lastScene' = [op |-> "destroy", threw |-> LessonDestroyed(TheLesson, sceneClass).s.threw,
                      wasInitialized |-> scene.isInitialized,
                      before |-> lastScene.op]
    /\ lessonHist' = [lessonHist EXCEPT !.assigned = << >>, !.everDestroyed = TRUE]
    /\ lastLesson' = [op |-> "destroy", torn |-> lessonHist.everDestroyed]
    /\ UNCHANGED <<varsBus, lastAnim, sceneClass, pending, varsShell, mainTimeline>>

NextLesson ==
    \/ LessonInit
    \/ SceneInitResumes
    \/ LessonPlay
    \/ LessonPause
    \/ LessonSpawn
    \/ \E newConsumerCount \in 1..3 : LessonRebalance(newConsumerCount)
    \/ LessonRebalanceResumes
    \/ TokenOnStart
    \/ TokenOnComplete
    \/ LessonDestroy

\* a lesson that is played and reset, never paused, rebalanced or destroyed
NextReset ==
    \/ LessonInit
    \/ SceneInitResumes
    \/ LessonPlay
    \/ LessonResetCall
    \/ LessonSpawn
    \/ TokenOnStart
    \/ TokenOnComplete

(***************************************************************************)
(* The lessons' main timelines.  createAnimationTimeline() adds the spawn  *)
(* callbacks with timeline.add(callback, offset); GSAP keeps a timeline's  *)
(* children sorted by start time, equal times in the order added, and      *)
(* calls them as the playhead passes.  Offsets are in hundredths of a      *)
(* second.  Three scenes are called Lesson2_Partitions in the sources.     *)
(***************************************************************************)
TimelineClasses ==
    {"Lesson1_Basics", "Lesson2_Partitions", "Lesson2_Partitions (keys)",
     "Lesson2_Partitions (modes)", "Lesson3_PartitionsWithKeys",
     "Lesson4_ConsumerGroups", "Lesson4_PartitionerStrategies", "Lesson5_Offsets",
     "Lesson6_Rebalancing"}

\* (Math.random() - 0.5) * 0.4 lies in [-0.2, 0.2)
Jitters == {-20, 0, 19}

NoMainTimeline == [offsets |-> << >>, fired |-> << >>]

\* the offsets of the spawn callbacks, in the order createAnimationTimeline
\* adds them; i counts from 1 here, the loops count from 0.  The callbacks
\* with an even loop index take the jitter jEven, the others jOdd.
SpawnOffsets(class, jEven, jOdd) ==
    LET J(i) == IF (i - 1) % 2 = 0 THEN jEven ELSE jOdd
        switchTime == 8 * 55 + 150
    IN  CASE class = "Lesson1_Basics" -> [i \in 1..5 |-> (i - 1) * 120]
          [] class = "Lesson2_Partitions" -> [i \in 1..15 |-> (i - 1) * 65]
          [] class = "Lesson2_Partitions (keys)" -> [i \in 1..9 |-> (i - 1) * 70]
          [] class = "Lesson2_Partitions (modes)" ->
               [i \in 1..17 |-> IF i <= 8 THEN (i - 1) * 55 + J(i)
                                ELSE switchTime + 50 + (i - 9) * 55 + J(i - 8)]
          [] class = "Lesson3_PartitionsWithKeys" -> [i \in 1..15 |-> (i - 1) * 65]
          [] class = "Lesson4_ConsumerGroups" -> [i \in 1..15 |-> (i - 1) * 65]
          [] class = "Lesson4_PartitionerStrategies" -> [i \in 1..12 |-> (i - 1) * 50]
          [] class = "Lesson5_Offsets" ->
               [i \in 1..12 |-> (i - 1) * (IF i - 1 < 6 THEN 80 ELSE 50)]
          [] class = "Lesson6_Rebalancing" ->
               [i \in 1..15 |-> ((i - 1) \div 5) * (5 * 65 + 200) + ((i - 1) % 5) * 65]

\* the callback the playhead reaches next: the earliest one not yet called
\* in this pass, the one added first among equal offsets
NextDue(tl) ==
    CHOOSE i \in DOMAIN tl.offsets :
        /\ \A k \in DOMAIN tl.fired : tl.fired[k] # i
        /\ \A j \in DOMAIN tl.offsets :
               (\A k \in DOMAIN tl.fired : tl.fired[k] # j) /\ j # i =>
                   \/ tl.offsets[i] < tl.offsets[j]
                   \/ tl.offsets[i] = tl.offsets[j] /\ i < j

\* setup() calls createAnimationTimeline()
CreateAnimationTimeline(jEven, jOdd) ==
    /\ mainTimeline = NoMainTimeline
    /\ mainTimeline' = [offsets |-> SpawnOffsets(sceneClass, jEven, jOdd), fired |-> << >>]
    /\ UNCHANGED <<varsBus, varsAnim, varsScene, varsShell,
                   lesson, tokens, rebalances, lessonHist, lastLesson>>

\* the playhead reaches the next spawn callback
TimelineCallbackFires ==
    /\ Len(mainTimeline.fired) < Len(mainTimeline.offsets)
    /\ mainTimeline' = [mainTimeline EXCEPT !.fired = Append(@, NextDue(mainTimeline))]
    /\ UNCHANGED <<varsBus, varsAnim, varsScene, varsShell,
                   lesson, tokens, rebalances, lessonHist, lastLesson>>

\* repeat: -1: after the last callback the timeline starts over
TimelineRepeats ==
    /\ mainTimeline.offsets # << >>
    /\ Len(mainTimeline.fired) = Len(mainTimeline.offsets)
    /\ mainTimeline' = [mainTimeline EXCEPT !.fired = << >>]
    /\ UNCHANGED <<varsBus, varsAnim, varsScene, varsShell,
                   lesson, tokens, rebalances, lessonHist, lastLesson>>

NextTimeline ==
    \/ \E jEven \in Jitters, jOdd \in Jitters : CreateAnimationTimeline(jEven, jOdd)
    \/ TimelineCallbackFires
    \/ TimelineRepeats

(***************************************************************************)
(* The lessons: claims                                                     *)
(***************************************************************************)
\* C14: after destroy() has completed on a scene, no callback of that scene
\* fires: no step of its main timeline, no onStart or onComplete of a token
\* in flight, no rebalance continuation.
C14_NoCallbackAfterDestroy ==
    lastLesson.op \in {"spawn", "rebalance", "rebalanceResumes", "onStart", "onComplete"} =>
        ~lastLesson.torn

\* C17: in a round-robin lesson the n-th token spawned since construction
\* (n from 0) is assigned partition n mod P.
C17_RoundRobinRouting ==
    sceneClass \in RoundRobinClasses =>
        \A n \in 0..(Len(lessonHist.assigned) - 1) :
            lessonHist.assigned[n + 1] = n % PartitionCount(sceneClass)

\* the rebalancing lesson has spawned seven tokens, around spawn callbacks
\* that fired during a rebalance and spawned nothing
C17_Witness ==
    /\ sceneClass = "Lesson6_Rebalancing"
    /\ Len(lessonHist.assigned) = 7
    /\ lastLesson.op = "spawn" /\ lesson.isRebalancing

\* C18: with the sticky partitioner (batch size 4, 3 partitions) the n-th
\* token spawned (n from 0) is assigned partition floor(n / 4) mod 3: the
\* four tokens of a batch share a partition, and the partition advances by
\* one, cyclically, after every fourth spawn.
C18_StickyBatchRouting ==
    sceneClass = "Lesson4_PartitionerStrategies" =>
        \A n \in 0..(Len(lessonHist.assigned) - 1) :
            lessonHist.assigned[n + 1] =
                (n \div StickyBatchSize) % PartitionCount(sceneClass)

\* the thirteenth token starts the fourth batch, on partition 0 again
C18_Witness ==
    /\ sceneClass = "Lesson4_PartitionerStrategies"
    /\ Len(lessonHist.assigned) = 3 * StickyBatchSize + 1
    /\ lesson.stickyPartitionIndex = 0 /\ lesson.stickyBatchCount = 1

\* C19: in the offset lesson the committed offset never exceeds the latest
\* offset (lag >= 0), lag grows only when a token is spawned and shrinks
\* only when a token is consumed (or destroy() resets both offsets).
C19_LagNeverNegative ==
    /\ [](sceneClass = "Lesson5_Offsets" => Lag(lesson) >= 0)
    /\ [][sceneClass = "Lesson5_Offsets" =>
            /\ Lag(lesson') > Lag(lesson) => lastLesson'.op = "spawn"
            /\ Lag(lesson') < Lag(lesson) => lastLesson'.op \in {"onStart", "destroy"}]_vars

\* C20: in the offset lesson, when the committed offset is k + 1 the token
\* with offset k has completed its consume animation: no in-flight message
\* with offset k still has its element in the registry.
C20_CommitOnlyAfterCompletion ==
    sceneClass = "Lesson5_Offsets" =>
        \A i \in 1..Len(lesson.inflightMessages) :
            lesson.inflightMessages[i].offset + 1 = lesson.consumerOffset =>
                MessageKey(lesson.inflightMessages[i].messageId) \notin DOMAIN elements

\* C23 as stated: after any addElement, removeElement and clear calls an
\* element is attached to the render root exactly if the registry holds it.
C23_AttachedIffRegistered ==
    vizGroup = RegisteredElements(elements)

\* C23, amended: the same, as long as no addElement since the last clear()
\* reused a registered id or an element added before.
C23_AttachedIffRegisteredUnlessReused ==
    ~hist.reused => vizGroup = RegisteredElements(elements)

\* three elements were added under three ids and one of them removed
C23_Witness ==
    /\ ~hist.reused
    /\ lastScene = [op |-> "removeElement", found |-> TRUE]
    /\ Cardinality(DOMAIN elements) = 2 /\ Cardinality(vizGroup) = 2

\* C25: in every lesson's main timeline the spawn callbacks have strictly
\* increasing offsets in the order they were added, so they are called in
\* that order.
C25_SpawnOffsetsIncrease ==
    /\ \A i \in 1..(Len(mainTimeline.offsets) - 1) :
           mainTimeline.offsets[i] < mainTimeline.offsets[i + 1]
    /\ \A k \in DOMAIN mainTimeline.fired : mainTimeline.fired[k] = k

\* C22: when a rebalance(k) call completes, the assignment table is the one
\* for k ([0,0,0], [0,0,1], [0,1,2] for k = 1, 2, 3) and isRebalancing is
\* false again; a call made with k equal to the active consumer count leaves
\* the table as it was when the call was made.
C22_AssignmentsDependOnlyOnCount ==
    lastLesson.op = "rebalanceResumes" =>
        /\ lesson.partitionAssignments = AssignmentsFor(lastLesson.newConsumerCount)
        /\ lastLesson.active = lastLesson.newConsumerCount =>
               lesson.partitionAssignments = lastLesson.table

\* C21: in the rebalancing lesson a spawn callback that fires while
\* isRebalancing is true spawns nothing: the lesson's counters (messageCount,
\* roundRobinIndex, partitionSequence, globalMessageCount, consumerLoad), the
\* registry, the canvas and the tokens in flight are unchanged.
C21_NoSpawnDuringRebalance ==
    [][LessonSpawn /\ sceneClass = "Lesson6_Rebalancing" /\ lesson.isRebalancing =>
           /\ UNCHANGED <<lesson, elements, vizGroup, tokens>>
           /\ lessonHist'.born = lessonHist.born]_vars

\* a spawn callback has fired while two rebalance() calls were waiting, after
\* two tokens were spawned
C21_Witness ==
    /\ sceneClass = "Lesson6_Rebalancing"
    /\ lastLesson.op = "spawn" /\ lesson.isRebalancing
    /\ lesson.messageCount = 2 /\ Len(rebalances) = 2

\* the lessons with a load gauge (brokerLoad, consumerLoad, partitionLoad)
GaugeClasses == LessonClasses \ {"Lesson5_Offsets"}

\* the tokens of this.messages that count in gauge entry g
InFlightOn(g) ==
    {k \in 1..Len(tokens) :
        /\ IndexOfUid(lesson.messages, tokens[k].uid) > 0
        /\ Gauge(sceneClass, tokens[k].partitionIndex, tokens[k].consumerIndex) = g}

C26_ResetRestoresInitialState ==
    [][LessonResetCall =>
           /\ ~animator'.isPlaying
           /\ animator'.timeline # NoTimeline =>
                  /\ ~Running(timelines', animator'.timeline)
                  /\ timelines'[animator'.timeline].time = 0
           /\ lesson' = NewLesson(sceneClass)
           /\ tokens' = << >>
           /\ \A n \in 0..MaxTokens : MessageKey(n) \notin DOMAIN elements']_vars

\* C28: in the rebalancing lesson, whenever isRebalancing is false the
\* assignment table is the one for activeConsumerCount and every partition
\* is assigned to a consumer below activeConsumerCount.
C28_AssignmentsMatchActiveCount ==
    sceneClass = "Lesson6_Rebalancing" /\ ~lesson.isRebalancing =>
        /\ lesson.partitionAssignments = AssignmentsFor(lesson.activeConsumerCount)
        /\ \A p \in DOMAIN lesson.partitionAssignments :
               lesson.partitionAssignments[p] < lesson.activeConsumerCount

\* C29: in the rebalancing lesson isRebalancing is true as long as some
\* rebalance() call has started and not completed.
C29_RebalancingWhilePending ==
    sceneClass = "Lesson6_Rebalancing" /\ rebalances # << >> => lesson.isRebalancing

(***************************************************************************)
(* The application shell, KafkaFlowVisualizer (src/js/kafka/Broker.js), and *)
(* the Controls' disable/enable (src/js/ui/InfoPanel.js).  An operation     *)
(* takes and returns [currentScene, controls, instances, viz, tls, ended,  *)
(* threw]: the shell's fields, the scenes it constructed, the canvas and   *)
(* GSAP's timelines they share, whether the loadLesson call has ended and  *)
(* whether it raised.                                                      *)
(***************************************************************************)
NoScene == 0

\* registerLessons(): slug -> lesson class
Lessons == [basics |-> "lesson", offsets |-> "lesson"]

\* the slugs a navigation event may carry
Slugs == {"basics", "offsets", "unknown"}

\* the Scene that instance i is, on the shared canvas
InstScene(sh, i) ==
    [sc |-> sh.instances[i].sc, elements |-> sh.instances[i].elements, viz |-> sh.viz,
     a |-> [an |-> sh.instances[i].an, tls |-> sh.tls, threw |-> FALSE],
     setups |-> 0, ready |-> FALSE, threw |-> FALSE]

PutScene(sh, i, s) ==
    [sh EXCEPT !.instances[i].sc = s.sc,
               !.instances[i].elements = s.elements,
               !.instances[i].an = s.a.an,
               !.viz = s.viz,
               !.tls = s.a.tls]

\* Controls.disable() / Controls.enable()
ControlsDisable(sh) == [sh EXCEPT !.controls.disabled = TRUE]
ControlsEnable(sh) == [sh EXCEPT !.controls.disabled = FALSE]

\* loadLesson's cleanup with the destroy() call left out
CleanupNoDestroy(sh) == [sh EXCEPT !.currentScene = NoScene]

\* if (this.currentScene) { this.currentScene.destroy(); this.currentScene = null }
Cleanup(sh) ==
    IF sh.currentScene = NoScene THEN sh
    ELSE LET i == sh.currentScene
             s == SceneDestroyed(InstScene(sh, i))
         IN  [PutScene(sh, i, s) EXCEPT !.instances[i].destroyed = TRUE,
                                        !.currentScene = NoScene]

\* this.currentScene = new LessonClass(this.canvas)
Construct(sh) ==
    LET i == CHOOSE n \in 1..(Cardinality(DOMAIN sh.instances) + 1) : n \notin DOMAIN sh.instances
    IN  [sh EXCEPT !.instances = MapSet(@, i, [sc |-> [isInitialized |-> FALSE],
                                                elements |-> << >>,
                                                an |-> NewAnimator,
                                                destroyed |-> FALSE]),
                   !.currentScene = i]

\* loadLesson(lessonId) whose not-found branch returns without enable()
LoadToAwaitNoEnable(sh, lessonId, outcome) ==
    LET s1 == Cleanup(ControlsDisable(sh))
    IN  IF lessonId \notin DOMAIN Lessons
        THEN [s1 EXCEPT !.ended = TRUE]
        ELSE LET s2 == Construct(s1)
                 i == s2.currentScene
             IN  PutScene(s2, i, InitToAwait(InstScene(s2, i), Lessons[lessonId], outcome))

\* loadLesson(lessonId) up to "await this.currentScene.init()", or to its
\* return when the slug is not registered
LoadToAwait(sh, lessonId, outcome) ==
    LET s1 == Cleanup(ControlsDisable(sh))
    IN  IF lessonId \notin DOMAIN Lessons
        THEN [ControlsEnable(s1) EXCEPT !.ended = TRUE]
        ELSE LET s2 == Construct(s1)
                 i == s2.currentScene
             IN  PutScene(s2, i, InitToAwait(InstScene(s2, i), Lessons[lessonId], outcome))

\* loadLesson after its await when init() of instance i resolved: init()
\* went on after its own await, then this.controls.enable()
LoadAfterAwait(sh, i) ==
    [ControlsEnable(PutScene(sh, i, InitAfterAwait(InstScene(sh, i)))) EXCEPT !.ended = TRUE]

\* loadLesson after its await when init() of instance i rejected: the await
\* rethrows and the rest of loadLesson is not run
LoadAfterRaise(sh, i) ==
    LET s == InitAfterRaise(InstScene(sh, i))
    IN  [PutScene(sh, i, s) EXCEPT !.ended = TRUE, !.threw = s.threw]

\* Controls.updatePlayState(playing)
UpdatePlayState(sh, playing) == [sh EXCEPT !.controls.isPlaying = playing]

\* the shell's listener of controls:playPause: if (this.currentScene)
\* currentScene.play() or .pause(); Scene.play()/pause() emits scene:play /
\* scene:pause, on which Controls' listener calls updatePlayState
OnPlayPause(sh, isPlaying) ==
    IF sh.currentScene = NoScene THEN sh
    ELSE LET i == sh.currentScene
             s == InstScene(sh, i)
             s1 == [s EXCEPT !.a = IF isPlaying THEN Play(@) ELSE Pause(@)]
         IN  UpdatePlayState(PutScene(sh, i, s1), isPlaying)

\* the shell's listener of controls:reset: if (this.currentScene)
\* currentScene.reset(); Scene.reset() emits scene:reset, on which Controls'
\* listener calls updatePlayState(false)
OnReset(sh) ==
    IF sh.currentScene = NoScene THEN sh
    ELSE LET i == sh.currentScene
             s == InstScene(sh, i)
         IN  UpdatePlayState(PutScene(sh, i, [s EXCEPT !.a = Reset(@)]), FALSE)

\* Controls.togglePlayPause(): this.isPlaying = !this.isPlaying;
\* emit('controls:playPause', this.isPlaying); updatePlayState(this.isPlaying)
TogglePlayPause(sh) ==
    LET s1 == [sh EXCEPT !.controls.isPlaying = ~@]
        s2 == OnPlayPause(s1, s1.controls.isPlaying)
    IN  UpdatePlayState(s2, s2.controls.isPlaying)

\* Controls.reset(): this.isPlaying = false; emit('controls:reset');
\* updatePlayState(false)
ControlsReset(sh) ==
    UpdatePlayState(OnReset([sh EXCEPT !.controls.isPlaying = FALSE]), FALSE)

(***************************************************************************)
(* The shell: the state machine of its lesson switches and of the clicks   *)
(* on the play/pause and reset buttons.  The listeners that Controls and   *)
(* the shell register at construction are never removed; their bodies are  *)
(* part of the operations above.                                           *)
(***************************************************************************)
TheShell == [currentScene |-> currentScene, controls |-> controls, instances |-> instances,
             viz |-> vizGroup, tls |-> timelines, ended |-> FALSE, threw |-> FALSE]

ShellDone(sh) ==
    /\ currentScene' = sh.currentScene
    /\ controls' = sh.controls
    /\ instances' = sh.instances
    /\ vizGroup' = sh.viz
    /\ timelines' = sh.tls

\* a navigation:lessonChange event (or the shell's init) calls loadLesson,
\* which runs to its await or to its return
ShellLoadLesson(lessonId, outcome) ==
    LET sh == LoadToAwait(TheShell, lessonId, outcome)
    IN  /\ Cardinality(DOMAIN instances) < MaxScenes
        /\ ShellDone(sh)
        /\ loads' = IF sh.ended THEN loads
                    ELSE Append(loads, [scene |-> sh.currentScene, outcome |-> outcome])
        /\ lastShell' = [op |-> IF sh.ended THEN "loadEnded" ELSE "loadSuspended",
                         lessonId |-> lessonId, threw |-> sh.threw,
                         previous |-> currentScene]
        /\ UNCHANGED <<varsBus, animator, lastAnim, sceneClass, scene, elements,
                       pending, hist, lastScene, varsLesson>>

\* the oldest suspended loadLesson resumes after an init() that resolved
ShellLoadResumes ==
    /\ loads # << >> /\ Head(loads).outcome = "ok"
    /\ ShellDone(LoadAfterAwait(TheShell, Head(loads).scene))
    /\ Publish("scene:ready")
    /\ loads' = Tail(loads)
    /\ lastShell' = [op |-> "loadEnded", lessonId |-> "", threw |-> FALSE,
                     previous |-> currentScene]
    /\ UNCHANGED <<animator, lastAnim, sceneClass, scene, elements,
                   pending, hist, lastScene, varsLesson>>

\* the oldest suspended loadLesson rejects after an init() that rejected
ShellLoadRejects ==
    /\ loads # << >> /\ Head(loads).outcome = "raises"
    /\ ShellDone(LoadAfterRaise(TheShell, Head(loads).scene))
    /\ loads' = Tail(loads)
    /\ lastShell' = [op |-> "loadEnded", lessonId |-> "",
                     threw |-> LoadAfterRaise(TheShell, Head(loads).scene).threw,
                     previous |-> currentScene]
    /\ UNCHANGED <<varsBus, animator, lastAnim, sceneClass, scene, elements,
                   pending, hist, lastScene, varsLesson>>

\* a click on the play/pause button; a disabled button takes no click, and
\* the shell's constructor has begun the first loadLesson before any click
ShellTogglePlayPause ==
    /\ lastShell.op # "new"
    /\ ~controls.disabled
    /\ ShellDone(TogglePlayPause(TheShell))
    /\ lastShell' = [op |-> "togglePlayPause"]
    /\ UNCHANGED <<varsBus, animator, lastAnim, sceneClass, scene, elements,
                   pending, hist, lastScene, loads, varsLesson>>

\* a click on the reset button
ShellReset ==
    /\ lastShell.op # "new"
    /\ ~controls.disabled
    /\ ShellDone(ControlsReset(TheShell))
    /\ lastShell' = [op |-> "reset"]
    /\ UNCHANGED <<varsBus, animator, lastAnim, sceneClass, scene, elements,
                   pending, hist, lastScene, loads, varsLesson>>

NextShell ==
    \/ \E lessonId \in Slugs, outcome \in SetupOutcomes : ShellLoadLesson(lessonId, outcome)
    \/ ShellLoadResumes
    \/ ShellLoadRejects
    \/ ShellTogglePlayPause
    \/ ShellReset

(***************************************************************************)
(* The shell: claims                                                       *)
(***************************************************************************)
\* C12: every loadLesson call that has ended, the ones whose scene's setup()
\* raised included, has left the playback controls enabled.
C12_ControlsEnabledAfterLoad ==
    lastShell.op = "loadEnded" => ~controls.disabled

\* The scenes constructed and not destroyed.
LiveScenes == {i \in DOMAIN instances : ~instances[i].destroyed}

\* C15: at every point at most one constructed and not destroyed scene
\* exists, and it is the current one: loadLesson destroys the outgoing scene
\* before it constructs the incoming one, also when loadLesson calls
\* interleave at their awaits.
C15_AtMostOneLiveScene ==
    /\ Cardinality(LiveScenes) <= 1
    /\ LiveScenes \subseteq {currentScene}

\* a second loadLesson began while the first was suspended at its await
C15_Witness ==
    /\ Len(loads) = 2
    /\ Cardinality(DOMAIN instances) = 2
    /\ instances[1].destroyed /\ ~instances[2].destroyed

\* C16: loadLesson with a slug that is not registered does not raise, leaves
\* no scene current (or the previous one, not destroyed), never a destroyed
\* scene, and leaves the controls enabled.
C16_UnknownSlugLeavesBlankState ==
    (lastShell.op = "loadEnded" /\ lastShell.lessonId = "unknown") =>
        /\ ~lastShell.threw
        /\ \/ currentScene = NoScene
           \/ currentScene = lastShell.previous /\ ~instances[currentScene].destroyed
        /\ ~controls.disabled

\* an unknown slug while a lesson is current
C16_Witness ==
    /\ lastShell.op = "loadEnded" /\ lastShell.lessonId = "unknown"
    /\ lastShell.previous # NoScene
    /\ instances[lastShell.previous].destroyed

\* C27: whenever no loadLesson call is in progress and a scene is current,
\* Controls.isPlaying equals the current scene's Animator.getIsPlaying().
C27_ControlsShowScenePlayState ==
    (loads = << >> /\ currentScene # NoScene) =>
        controls.isPlaying = instances[currentScene].an.isPlaying

\* The state after construction: new EventBus(), new Scene(canvas) with its
\* new Animator(), for a scene of one of the given classes.
Constructed(classes) ==
    /\ listeners = << >>
    /\ net = [ev \in Events |-> [e \in Entry |-> 0]]
    /\ last = NoCall
    /\ chain = NoChain
    /\ animator = NewAnimator
    /\ timelines = << >>
    /\ lastAnim = [op |-> "new"]
    /\ sceneClass \in classes
    /\ scene = [isInitialized |-> FALSE]
    /\ elements = << >>
    /\ vizGroup = {}
    /\ pending = << >>
    /\ hist = NewHist
    /\ lastScene = [op |-> "new"]
    /\ currentScene = NoScene
    /\ controls = [disabled |-> FALSE, isPlaying |-> FALSE]
    /\ instances = << >>
    /\ loads = << >>
    /\ lastShell = [op |-> "new"]
    /\ lesson = NewLesson(sceneClass)
    /\ tokens = << >>
    /\ rebalances = << >>
    /\ lessonHist = NewLessonHist
    /\ lastLesson = [op |-> "new"]
    /\ mainTimeline = NoMainTimeline

Init == Constructed({"base"})

InitAnyScene == Constructed(SceneClasses)

SpecBus == Init /\ [][NextBus]_vars

SpecAnim == Init /\ [][NextAnim]_vars

SpecScene == InitAnyScene /\ [][NextScene]_vars

SpecRegistry == Init /\ [][NextRegistry]_vars

SpecShell == Init /\ [][NextShell]_vars

InitLesson == Constructed(LessonClasses)

InitTimeline == Constructed(TimelineClasses)

SpecTimeline == InitTimeline /\ [][NextTimeline]_vars

SpecLesson == InitLesson /\ [][NextLesson]_vars

SpecReset == InitLesson /\ [][NextReset]_vars

====
